---------------------------- MODULE Spec2Model ----------------------------
(***************************************************************************)
(* A model of mcp-hue-server: the six MCP tool handlers (index.ts), the    *)
(* PhillipsHueService behind them (hue-service.ts) and the requests the    *)
(* HueApiClient sends to the bridge (hue-api-client.ts).                   *)
(*                                                                         *)
(* One action is one resumption of an async function: the completion of an *)
(* await together with the synchronous code that follows it up to the next *)
(* await.  The synchronous code is written as operators over a record      *)
(*   st = [svc |-> the service object's fields, p |-> the command's locals]*)
(* that return the record after the code has run.                          *)
(*                                                                         *)
(* Spec runs the server with one command at a time, SpecHost runs two      *)
(* commands in one process, and SpecUnit makes single calls of the         *)
(* service's lookups, listings and credential store.                       *)
(***************************************************************************)
EXTENDS Integers, Sequences, FiniteSets, TLC

\* Longest light / room listing the bridge returns.
MaxEntities == 2

\* Longest listing given to listAllLights / listAllRooms called on their own.
MaxListed == 3

---------------------------------------------------------------------------
(* JavaScript values *)

\* undefined, for string-valued fields and variables
Undefined == "undefined"
\* truthiness of a string-or-undefined value
Truthy(v) == v # Undefined /\ v # ""

\* Display names are sequences of characters; a light or room the bridge
\* returns without metadata.name carries NoName.  The empty name is not
\* among the model's inputs.
NoName == <<"undefined">>

\* An optional number is <<>> (undefined) or <<n>>.
NoNumber == <<>>
\* a default parameter value: `brightness = 100`
DefaultParam(arg, dflt) == IF arg = NoNumber THEN dflt ELSE arg[1]

RECURSIVE Str(_)
\* the string of a sequence of characters
Str(chars) == IF chars = <<>> THEN "" ELSE Head(chars) \o Str(Tail(chars))

\* String.prototype.toLowerCase on one character of the model's alphabet
LowerChar(c) ==
  CASE c = "K" -> "k"
    [] c = "I" -> "i"
    [] c = "O" -> "o"
    [] c = "F" -> "f"
    [] c = "L" -> "l"
    [] c = "R" -> "r"
    [] c = "S" -> "s"
    [] OTHER -> c

toLowerCase(chars) == [i \in DOMAIN chars |-> LowerChar(chars[i])]

\* Collation of String.prototype.localeCompare (root locale): strings are
\* compared first by their letters regardless of case (space, then digits,
\* then letters), and only when these agree by case, lower case first.
PrimaryOrder == <<" ", "1", "2", "3", "4", "f", "g", "h", "i", "k", "l", "m", "o", "r", "t">>

PrimaryRank(c) == CHOOSE i \in DOMAIN PrimaryOrder : PrimaryOrder[i] = LowerChar(c)

TertiaryRank(c) == IF LowerChar(c) = c THEN 0 ELSE 1

\* a character's rank at a collation level
Rank(level, c) == IF level = "primary" THEN PrimaryRank(c) ELSE TertiaryRank(c)

RECURSIVE CompareAt(_, _, _)
\* lexicographic comparison of two character sequences at a level: -1, 0, 1
CompareAt(level, a, b) ==
  IF a = <<>> /\ b = <<>> THEN 0
  ELSE IF a = <<>> THEN -1
  ELSE IF b = <<>> THEN 1
  ELSE IF Rank(level, Head(a)) < Rank(level, Head(b)) THEN -1
  ELSE IF Rank(level, Head(a)) > Rank(level, Head(b)) THEN 1
  ELSE CompareAt(level, Tail(a), Tail(b))

localeCompare(a, b) ==
  LET primary == CompareAt("primary", a, b)
  IN  IF primary # 0 THEN primary ELSE CompareAt("tertiary", a, b)

RECURSIVE InsertSorted(_, _)
\* `x` put into the sorted sequence `s` after every element not above it
InsertSorted(x, s) ==
  IF s = <<>> THEN <<x>>
  ELSE IF localeCompare(x, Head(s)) < 0 THEN <<x>> \o s
  ELSE <<Head(s)>> \o InsertSorted(x, Tail(s))

\* SortNames leaving the names in the order the bridge returned them
SortNames_AsReturned(s) == s

RECURSIVE SortNames(_)
\* Array.prototype.sort((a, b) => a.localeCompare(b)): a stable sort
SortNames(s) ==
  IF s = <<>> THEN <<>>
  ELSE InsertSorted(s[Len(s)], SortNames(SubSeq(s, 1, Len(s) - 1)))

RECURSIVE JoinNames(_)
\* Array.prototype.join(', ')
JoinNames(names) ==
  IF names = <<>> THEN ""
  ELSE IF Len(names) = 1 THEN Str(names[1])
  ELSE Str(names[1]) \o ", " \o JoinNames(Tail(names))

---------------------------------------------------------------------------
(* The bridge's resources and the inputs of the tools *)

\* Resource ids are one character long, so that they can be part of a name.
Ids == {ToString(i) : i \in 1..MaxEntities}

\* `Light ${l.id}` and `Room ${r.id}`
SyntheticLightName(id) == <<"L", "i", "g", "h", "t", " ", id>>
SyntheticRoomName(id) == <<"R", "o", "o", "m", " ", id>>

\* display names the bridge may hold for a light and for a room
LightNames == {<<"K", "i">>, <<"k", "i">>, <<"O", "f">>}
RoomNames == {<<"O", "f">>, <<"o", "F">>}

\* names a caller may ask for
LightQueries == {<<"K", "i">>, <<"k", "i">>, <<"K", "I">>, SyntheticLightName("1")}
RoomQueries == {<<"O", "f">>, <<"o", "f">>, <<"K", "i">>}

Lights == [id : Ids, name : LightNames \cup {NoName}]

\* The services of room `id`: no grouped light, the grouped light "g<id>",
\* or a grouped_light reference without rid.
LightService(id) == [rtype |-> "light", rid |-> "l" \o id]
GroupedLightService(id) == [rtype |-> "grouped_light", rid |-> "g" \o id]
BrokenGroupedLightService == [rtype |-> "grouped_light", rid |-> Undefined]

ServiceLists(id) ==
  { <<LightService(id)>>,
    <<LightService(id), GroupedLightService(id)>>,
    <<BrokenGroupedLightService>> }

Rooms ==
  UNION { [id : {i}, name : RoomNames \cup {NoName}, services : ServiceLists(i)]
        : i \in Ids }

\* the listings of a resource kind: sequences without a repeated id
Listings(Entities) ==
  UNION { {l \in [1..n -> Entities] : \A i, j \in 1..n : i # j => l[i].id # l[j].id}
        : n \in 0..MaxEntities }

LightTools == {"turnLightOn", "turnLightOff"}
RoomTools == {"turnRoomLightsOn", "turnRoomLightsOff"}
ListTools == {"listAllLights", "listAllRooms"}
\* the bridge resource a tool lists first
ResourceOf(tool) ==
  IF tool \in LightTools \cup {"listAllLights"} THEN "light" ELSE "room"

\* The arguments the tools accept (their inputSchema): a name for the
\* light and room tools, and an optional brightness for turnRoomLightsOn.
Commands ==
  [tool : LightTools, name : LightQueries, brightness : {NoNumber}]
    \cup [tool : {"turnRoomLightsOn"}, name : RoomQueries, brightness : {NoNumber, <<40>>}]
    \cup [tool : {"turnRoomLightsOff"}, name : RoomQueries, brightness : {NoNumber}]
    \cup [tool : ListTools, name : {NoName}, brightness : {NoNumber}]

\* What process.env holds: HUE_BRIDGE_IP, HUE_USERNAME, HUE_CLIENT_KEY.
Environments ==
  [HUE_BRIDGE_IP : {Undefined, "10.0.0.2"},
   HUE_USERNAME : {Undefined, "env-user"},
   HUE_CLIENT_KEY : {Undefined, "env-key"}]

\* the addresses a discovered service announces (addresses[0]); a service
\* may announce none
AnnouncedAddresses == {"192.168.1.2", Undefined}

\* what the DNS-SD browser does once started: it reports a service, it
\* reports an error, or it reports nothing at all
BrowserOutcomes == {"serviceUp", "error", "silent"}

\* the username the bridge issues
BridgeUsernames == {"u1"}

\* The bridge's answers to POST /api, as response.data.
CreateUserResponses ==
  {[kind |-> "success", username |-> u] : u \in BridgeUsernames}
    \cup {[kind |-> "error", description |-> "link button not pressed"],
          [kind |-> "unexpected"], [kind |-> "empty"],
          [kind |-> "httpError"], [kind |-> "noResponse"]}

\* The outcomes of a request to /clip/v2: a body, a non-2xx status, or no
\* response (the axios response interceptor).
HttpFailures == {"httpError", "noResponse"}

HttpErrorMessage(failure) ==
  IF failure = "httpError" THEN "Hue API Error: 403 Forbidden"
  ELSE "No response received from Hue Bridge"

---------------------------------------------------------------------------
(* The credentials file *)

\* interface HueCredentials
HueCredentials(username, clientKey) == [username |-> username, clientKey |-> clientKey]

\* JSON.stringify of a credentials object: a member whose value is undefined
\* is left out.
Stringify(credentials) ==
  [json |-> TRUE,
   members |-> SelectSeq(<<<<"username", credentials.username>>,
                           <<"clientKey", credentials.clientKey>>>>,
                         LAMBDA m : m[2] # Undefined)]

\* the value of member `key` of a parsed JSON object
Member(text, key) ==
  LET at == {i \in DOMAIN text.members : text.members[i][1] = key}
  IN  IF at = {} THEN Undefined ELSE text.members[CHOOSE i \in at : TRUE][2]

\* JSON.parse(fileContent) as HueCredentials, for a text that is JSON
Parse(text) == HueCredentials(Member(text, "username"), Member(text, "clientKey"))

\* a file that is not there, and a file holding a text
NoFile == [exists |-> FALSE]
FileWith(text) == [exists |-> TRUE, text |-> text]

NotJson == [json |-> FALSE, members |-> <<>>]

\* what the credentials file may hold when the process starts
InitialFiles ==
  { NoFile,
    FileWith(NotJson),
    FileWith(Stringify(HueCredentials("u0", Undefined))),
    FileWith(Stringify(HueCredentials("u0", "k0"))) }

\* readCredentialsFromFile returning whatever JSON object the file holds
readCredentialsFromFile_Unchecked(f, readable) ==
  IF ~f.exists \/ ~readable THEN <<>>
  ELSE IF ~f.text.json THEN <<>>
  ELSE <<Parse(f.text)>>

\* saveCredentialsToFile leaving a file that is already there as it is
saveCredentialsToFile_KeepsFile(f, credentials, writable) ==
  IF writable /\ ~f.exists THEN FileWith(Stringify(credentials)) ELSE f

\* readCredentialsFromFile: <<credentials>>, or <<>> for null.  `readable`
\* is whether fs.readFile succeeds on a file that exists.
readCredentialsFromFile(f, readable) ==
  IF ~f.exists \/ ~readable THEN <<>>
  ELSE IF ~f.text.json THEN <<>>
  ELSE IF Truthy(Parse(f.text).username) /\ Truthy(Parse(f.text).clientKey)
       THEN <<Parse(f.text)>>
  ELSE <<>>

\* saveCredentialsToFile: the file afterwards.  `writable` is whether
\* fs.mkdir and fs.writeFile succeed.
saveCredentialsToFile(f, credentials, writable) ==
  IF writable THEN FileWith(Stringify(credentials)) ELSE f

---------------------------------------------------------------------------
(* State *)

VARIABLES
  env,    \* process.env
  file,   \* the credentials file at getCredentialsPath()
  svc,    \* the PhillipsHueService object: bridgeIp, hueUsername, hueClientKey, apiClient
  proc,   \* per dispatched command: where its handler stands, and its locals
  host,   \* how the MCP host delivers commands: one at a time, or overlapping
  unit    \* a single call of one method of the service: its arguments and its result

vars == <<env, file, svc, proc, host, unit>>

\* The host waits for a command's response before it sends the next one
\* (stdio transport, one client), or it does not.
OneAtATime == "one at a time"
Overlapping == "overlapping"

\* no method is called on its own
NoUnit == [fn |-> "none"]

\* Commands the host may have in flight.  The host delivers one command at
\* a time, through the first slot.
Slots == {1, 2}
SequentialSlots == {1}

\* private apiClient: HueApiClient | null = null
NoClient == [bridgeIp |-> Undefined, apiKey |-> Undefined]

\* new HueApiClient({ bridgeIp, apiKey })
HueApiClient(bridgeIp, apiKey) == [bridgeIp |-> bridgeIp, apiKey |-> apiKey]

\* new PhillipsHueService(): args is undefined, so the fields come from env
PhillipsHueService(e) ==
  [bridgeIp |-> e.HUE_BRIDGE_IP,
   hueUsername |-> e.HUE_USERNAME,
   hueClientKey |-> e.HUE_CLIENT_KEY,
   apiClient |-> NoClient]

NoCommand == [tool |-> "none", name |-> NoName, brightness |-> NoNumber]
NoResult == [kind |-> "none", text |-> ""]

\* A command slot with no command in it.
\*   pc          where the handler waits
\*   cont        what the caller of getApiClient does with the client
\*   ret         the caller of discoverBridge
\*   browser     what the DNS-SD browser started by this command will do
\*   response    the bridge's answer to the registration request
\*   credentials newCredentials of getHueCredentials, <<>> before
\*   fetched     <<the listing this command was given>>, <<>> before
\*   found       <<the light or room the lookup returned>>, <<>> before
\*   err         the message of the error the handler caught
\*   result      what the handler returned to the host
\*   log         the requests this command has issued, in order
NoResponse == [kind |-> "none"]

IdleProc ==
  [pc |-> "idle", cmd |-> NoCommand, cont |-> "none", ret |-> "none",
   browser |-> "none", response |-> NoResponse,
   credentials |-> <<>>, fetched |-> <<>>, found |-> <<>>,
   err |-> Undefined, result |-> NoResult, log |-> <<>>]

\* an entry of a command's log
Event(op, resource, id, data) == [op |-> op, resource |-> resource, id |-> id, data |-> data]
Did(op) == Event(op, "", "", <<>>)

Emit(st, event) == [st EXCEPT !.p.log = Append(@, event)]

---------------------------------------------------------------------------
(* index.ts: the tool handlers *)

\* the text a handler's catch block puts before the error message
FailureText(tool) ==
  CASE tool = "turnLightOn" -> "Failed to turn on light: "
    [] tool = "turnLightOff" -> "Failed to turn off light: "
    [] tool = "listAllLights" -> "Failed to list lights: "
    [] tool = "listAllRooms" -> "Failed to list rooms: "
    [] tool = "turnRoomLightsOn" -> "Failed to turn on room lights: "
    [] tool = "turnRoomLightsOff" -> "Failed to turn off room lights: "

\* the text a handler returns when the service call resolved to `value`
SuccessText(cmd, value) ==
  CASE cmd.tool = "turnLightOn" -> "Successfully turned on light: " \o Str(cmd.name)
    [] cmd.tool = "turnLightOff" -> "Successfully turned on light: " \o Str(cmd.name)
    [] cmd.tool = "listAllLights" -> "The available lights are: " \o JoinNames(value)
    [] cmd.tool = "listAllRooms" -> "The available rooms are: " \o JoinNames(value)
    [] cmd.tool = "turnRoomLightsOn" ->
         "Successfully turned on all lights in room: " \o Str(cmd.name)
    [] cmd.tool = "turnRoomLightsOff" ->
         "Successfully turned off all lights in room: " \o Str(cmd.name)

\* HandlerCatch with the listAllRooms handler letting the error through
HandlerCatch_Rethrows(tool, message) ==
  IF tool = "listAllRooms" THEN [kind |-> "fault", text |-> message]
  ELSE [kind |-> "response", text |-> FailureText(tool) \o message]

\* catch (error) { ...; return { content: [{ type: 'text', text }] } }
\* Every error the service raises is an Error, so errorMessage is its message.
HandlerCatch(tool, message) == [kind |-> "response", text |-> FailureText(tool) \o message]

\* return { content: [{ type: 'text', text }] } at the end of the try block
HandlerReturn(cmd, value) == [kind |-> "response", text |-> SuccessText(cmd, value)]

\* An error raised in the service call reaches the handler's catch block.
Throw(st, message) ==
  [st EXCEPT !.p.pc = "returned", !.p.err = message,
             !.p.result = HandlerCatch(st.p.cmd.tool, message)]

\* The service call resolved.
Return(st, value) ==
  [st EXCEPT !.p.pc = "returned", !.p.result = HandlerReturn(st.p.cmd, value)]

---------------------------------------------------------------------------
(* hue-api-client.ts: the requests *)

\* ResourceClient.getAll: GET /resource/<kind>
getAll(st, resource) ==
  [Emit(st, Event("GET", resource, "", <<>>)) EXCEPT !.p.pc = "getAll"]

\* ResourceClient.update: PUT /resource/<kind>/<id>
update(st, resource, id, data) ==
  [Emit(st, Event("PUT", resource, id, data)) EXCEPT !.p.pc = "update"]

\* LightClient.turnOn and GroupedLightClient.turnOn: the body sent
TurnOnData(brightness) ==
  IF brightness # NoNumber
  THEN [on |-> [on |-> TRUE], dimming |-> [brightness |-> brightness[1]]]
  ELSE [on |-> [on |-> TRUE]]

\* LightClient.turnOff and GroupedLightClient.turnOff: the body sent
TurnOffData == [on |-> [on |-> FALSE]]

---------------------------------------------------------------------------
(* hue-service.ts: lookups and listings *)

\* findLightByName falling back to the first light when none is named so
findLightByName_FirstIfNone(lights, lightName) ==
  LET hits == {i \in DOMAIN lights : lights[i].name = lightName}
  IN  IF lights = <<>> THEN <<>>
      ELSE IF hits = {} THEN <<lights[1]>>
      ELSE <<lights[CHOOSE i \in hits : \A j \in hits : i <= j]>>

\* findLightByName comparing as findRoomByName does, regardless of case
findLightByName_IgnoreCase(lights, lightName) ==
  LET hits == {i \in DOMAIN lights :
                 lights[i].name # NoName /\ toLowerCase(lights[i].name) = toLowerCase(lightName)}
  IN  IF hits = {} THEN <<>>
      ELSE <<lights[CHOOSE i \in hits : \A j \in hits : i <= j]>>

\* lights.find((l) => l.metadata?.name === lightName): <<light>> or <<>>
findLightByName(lights, lightName) ==
  LET hits == {i \in DOMAIN lights : lights[i].name = lightName}
  IN  IF hits = {} THEN <<>>
      ELSE <<lights[CHOOSE i \in hits : \A j \in hits : i <= j]>>

\* RoomNameMatches comparing the names as they are
RoomNameMatches_Exact(room, roomName) == room.name = roomName

\* r.metadata?.name?.toLowerCase() === roomName.toLowerCase()
RoomNameMatches(room, roomName) ==
  room.name # NoName /\ toLowerCase(room.name) = toLowerCase(roomName)

\* rooms.find(...): <<room>> or <<>>
findRoomByName(rooms, roomName) ==
  LET hits == {i \in DOMAIN rooms : RoomNameMatches(rooms[i], roomName)}
  IN  IF hits = {} THEN <<>>
      ELSE <<rooms[CHOOSE i \in hits : \A j \in hits : i <= j]>>

\* groupedLightService taking the room's first service of any kind
groupedLightService_AnyService(room) ==
  IF "services" \notin DOMAIN room \/ room.services = <<>> THEN <<>>
  ELSE <<room.services[1]>>

\* room.services?.find((service) => service.rtype === 'grouped_light')
groupedLightService(room) ==
  IF "services" \notin DOMAIN room THEN <<>>
  ELSE LET hits == {i \in DOMAIN room.services : room.services[i].rtype = "grouped_light"}
       IN  IF hits = {} THEN <<>>
           ELSE <<room.services[CHOOSE i \in hits : \A j \in hits : i <= j]>>

\* lights.map((l) => l.metadata?.name || `Light ${l.id}`).sort(...)
listAllLights(lights) ==
  SortNames([i \in DOMAIN lights |->
               IF lights[i].name # NoName THEN lights[i].name
               ELSE SyntheticLightName(lights[i].id)])

\* rooms.map((r) => r.metadata?.name || `Room ${r.id}`).sort(...)
listAllRooms(rooms) ==
  SortNames([i \in DOMAIN rooms |->
               IF rooms[i].name # NoName THEN rooms[i].name
               ELSE SyntheticRoomName(rooms[i].id)])

---------------------------------------------------------------------------
(* hue-service.ts: the commands, from the point where they hold the client *)

\* turnLightOn sending its update to the light it switched before
turnLightOn_RememberedId(st) ==
  update(st, "light", "1", TurnOnData(<<DefaultParam(st.p.cmd.brightness, 100)>>))

\* turnLightOn, after `const client = await this.getApiClient()`
turnLightOn(st) ==
  update(st, "light", st.p.found[1].id,
         TurnOnData(<<DefaultParam(st.p.cmd.brightness, 100)>>))

\* turnLightOff, after `const client = await this.getApiClient()`
turnLightOff(st) == update(st, "light", st.p.found[1].id, TurnOffData)

NoGroupedLight(st) ==
  Throw(st, "No grouped light service found for room '" \o Str(st.p.cmd.name) \o "'")

\* turnOnRoomLights switching a member light on itself, not the group
turnOnRoomLights_LocalLoop(st) ==
  update(st, "light", st.p.found[1].services[1].rid,
         TurnOnData(<<DefaultParam(st.p.cmd.brightness, 100)>>))

\* turnOnRoomLights, after `const client = await this.getApiClient()`
turnOnRoomLights(st) ==
  LET service == groupedLightService(st.p.found[1])
  IN  IF service = <<>> \/ ~Truthy(service[1].rid) THEN NoGroupedLight(st)
      ELSE update(st, "grouped_light", service[1].rid,
                  TurnOnData(<<DefaultParam(st.p.cmd.brightness, 100)>>))

\* turnOffRoomLights, after `const client = await this.getApiClient()`
turnOffRoomLights(st) ==
  LET service == groupedLightService(st.p.found[1])
  IN  IF service = <<>> \/ ~Truthy(service[1].rid) THEN NoGroupedLight(st)
      ELSE update(st, "grouped_light", service[1].rid, TurnOffData)

\* What the caller of getApiClient does once it holds the client: the
\* lookups and listings fetch the resource, the commands send their update.
WithClient(st) ==
  IF st.p.cont = "fetch" THEN getAll(st, ResourceOf(st.p.cmd.tool))
  ELSE CASE st.p.cmd.tool = "turnLightOn" -> turnLightOn(st)
         [] st.p.cmd.tool = "turnLightOff" -> turnLightOff(st)
         [] st.p.cmd.tool = "turnRoomLightsOn" -> turnOnRoomLights(st)
         [] st.p.cmd.tool = "turnRoomLightsOff" -> turnOffRoomLights(st)

---------------------------------------------------------------------------
(* hue-service.ts: the client, the bridge address and the credentials *)

\* getApiClient from `if (!this.bridgeIp || !this.hueClientKey)` on
getApiClient_205(st) ==
  IF ~Truthy(st.svc.bridgeIp) \/ ~Truthy(st.svc.hueClientKey)
  THEN Throw(st, "Bridge IP or API key not available. Please ensure they are provided.")
  ELSE WithClient([st EXCEPT !.svc.apiClient =
                               HueApiClient(st.svc.bridgeIp, st.svc.hueClientKey)])

\* getApiClient once getHueCredentials has resolved to `credentials`
getApiClient_201(st, credentials) ==
  getApiClient_205([Emit(st, Did("setCredentials")) EXCEPT
                      !.svc.hueUsername = credentials.username,
                      !.svc.hueClientKey = credentials.clientKey])

\* getApiClient from `if (!this.hueUsername || !this.hueClientKey)` on:
\* getHueCredentials starts by reading the credentials file.
getApiClient_199(st) ==
  IF ~Truthy(st.svc.hueUsername) \/ ~Truthy(st.svc.hueClientKey)
  THEN [Emit(st, Did("readFile")) EXCEPT !.p.pc = "readFile"]
  ELSE getApiClient_205(st)

\* createNewHueUser from the second `if (!this.bridgeIp)` on: it waits ten
\* seconds for the link button.
createNewHueUser_223(st) ==
  IF ~Truthy(st.svc.bridgeIp)
  THEN Throw(st, "Cannot create credentials: Bridge IP not available")
  ELSE [st EXCEPT !.p.pc = "waitButton"]

\* the caller of discoverBridge, resumed
AfterDiscoverBridge(st) ==
  IF st.p.ret = "getApiClient" THEN getApiClient_199(st) ELSE createNewHueUser_223(st)

\* discoverBridge, up to browser.start(): `outcome` is what the browser
\* will do
discoverBridge(st, caller, outcome) ==
  IF Truthy(st.svc.bridgeIp) THEN AfterDiscoverBridge([st EXCEPT !.p.ret = caller])
  ELSE [Emit(st, Did("browse")) EXCEPT
          !.p.pc = "browsing", !.p.ret = caller, !.p.browser = outcome]

\* createNewHueUser, from its start
createNewHueUser(st, outcome) ==
  IF ~Truthy(st.svc.bridgeIp) THEN discoverBridge(st, "createNewHueUser", outcome)
  ELSE createNewHueUser_223(st)

\* getApiClient without its cache: every call loads the credentials again
getApiClient_NoCache(st, outcome) ==
  IF ~Truthy(st.svc.bridgeIp) THEN discoverBridge(st, "getApiClient", outcome)
  ELSE [Emit(st, Did("readFile")) EXCEPT !.p.pc = "readFile"]

\* getApiClient, from its start
getApiClient(st, outcome) ==
  IF st.svc.apiClient # NoClient THEN WithClient(st)
  ELSE IF ~Truthy(st.svc.bridgeIp) THEN discoverBridge(st, "getApiClient", outcome)
  ELSE getApiClient_199(st)

\* createNewHueUser's reading of the bridge's answer: <<credentials>>, or
\* the message of the error thrown inside the try block
CreateUserError(response) ==
  CASE response.kind = "error" -> "Failed to create Hue user: " \o response.description
    [] response.kind = "unexpected" -> "Failed to create Hue user: Unexpected response format"
    [] response.kind = "empty" -> "Cannot read properties of undefined (reading 'error')"
    [] OTHER -> HttpErrorMessage(response.kind)

---------------------------------------------------------------------------
(* The state machine *)

LightListings == Listings(Lights)
RoomListings == Listings(Rooms)

Init ==
  /\ env \in Environments
  /\ file \in InitialFiles
  /\ svc = PhillipsHueService(env)
  /\ proc = [s \in Slots |-> IdleProc]
  /\ host = OneAtATime
  /\ unit = NoUnit

\* the service and the locals of command `s`, as the code of `s` sees them
View(s) == [svc |-> svc, p |-> proc[s]]

\* the code of command `s` has run and left `st`
Commit(s, st) ==
  /\ svc' = st.svc
  /\ proc' = [proc EXCEPT ![s] = st.p]
  /\ UNCHANGED <<host, unit>>

\* The host calls a tool: the handler calls the service, whose first step
\* is getApiClient (in findLightByName, findRoomByName, listAllLights or
\* listAllRooms).
Dispatch(s) ==
  \E cmd \in Commands, outcome \in BrowserOutcomes :
    /\ proc[s].pc = "idle"
    /\ Commit(s, getApiClient([svc |-> svc,
                               p |-> [IdleProc EXCEPT !.cmd = cmd, !.cont = "fetch"]],
                              outcome))
    /\ UNCHANGED <<env, file>>

\* browser.on('serviceUp'): the address is kept, the browser stopped and
\* the caller of discoverBridge resumed.
serviceUp(s) ==
  \E address \in AnnouncedAddresses :
    /\ proc[s].pc = "browsing"
    /\ proc[s].browser = "serviceUp"
    /\ Commit(s, AfterDiscoverBridge([View(s) EXCEPT !.svc.bridgeIp = address,
                                                     !.p.browser = "stopped"]))
    /\ UNCHANGED <<env, file>>

\* browser.on('error'): discoverBridge rejects.
browserError(s) ==
  /\ proc[s].pc = "browsing"
  /\ proc[s].browser = "error"
  /\ Commit(s, Throw(View(s), "Failed to discover bridge: " \o "socket error"))
  /\ UNCHANGED <<env, file>>

\* getHueCredentials, once readCredentialsFromFile has resolved
getHueCredentials(s) ==
  \E readable \in BOOLEAN, outcome \in BrowserOutcomes :
    /\ proc[s].pc = "readFile"
    /\ LET existingCredentials == readCredentialsFromFile(file, readable)
       IN  Commit(s, IF existingCredentials # <<>>
                     THEN getApiClient_201(View(s), existingCredentials[1])
                     ELSE createNewHueUser(View(s), outcome))
    /\ UNCHANGED <<env, file>>

\* createNewHueUser, once the ten seconds are over: it posts the
\* registration request.
linkButtonWaitOver(s) ==
  /\ proc[s].pc = "waitButton"
  /\ Commit(s, [Emit(View(s), Did("createUser")) EXCEPT !.p.pc = "createUser"])
  /\ UNCHANGED <<env, file>>

\* createNewHueUser taking any answer that is not an error payload for a
\* new user
createUserResponse_AcceptsAny(s) ==
  \E response \in CreateUserResponses :
    /\ proc[s].pc = "createUser"
    /\ LET st == [View(s) EXCEPT !.p.response = response]
       IN  Commit(s, IF response.kind \in {"success", "unexpected"}
                     THEN [Emit(st, Did("writeFile")) EXCEPT
                             !.p.pc = "saveFile",
                             !.p.credentials =
                                <<IF response.kind = "success"
                                  THEN HueCredentials(response.username, response.username)
                                  ELSE HueCredentials("", "")>>]
                     ELSE Throw(st, "Failed to create Hue user: "
                                      \o CreateUserError(response)))
    /\ UNCHANGED <<env, file>>

\* createNewHueUser, once the bridge has answered: an error thrown inside
\* the try block is caught and thrown again with the prefix; otherwise
\* getHueCredentials goes on to save the new credentials.
createUserResponse(s) ==
  \E response \in CreateUserResponses :
    /\ proc[s].pc = "createUser"
    /\ LET st == [View(s) EXCEPT !.p.response = response]
       IN  Commit(s, IF response.kind = "success"
                     THEN [Emit(st, Did("writeFile")) EXCEPT
                             !.p.pc = "saveFile",
                             !.p.credentials =
                                <<HueCredentials(response.username, response.username)>>]
                     ELSE Throw(st, "Failed to create Hue user: "
                                      \o CreateUserError(response)))
    /\ UNCHANGED <<env, file>>

\* getHueCredentials with a saveCredentialsToFile that lets the error of a
\* failed write through
credentialsSaved_Throws(s) ==
  \E writable \in BOOLEAN :
    /\ proc[s].pc = "saveFile"
    /\ file' = saveCredentialsToFile(file, proc[s].credentials[1], writable)
    /\ Commit(s, IF writable
                 THEN getApiClient_201(Emit(View(s), Did("saved")), proc[s].credentials[1])
                 ELSE Throw(Emit(View(s), Did("saveFailed")),
                            "EACCES: permission denied, open '.hue-credentials.json'"))
    /\ UNCHANGED env

\* getHueCredentials, once saveCredentialsToFile has resolved: it has
\* logged that it saved the file or that it failed to, and the new
\* credentials go back to getApiClient either way.
credentialsSaved(s) ==
  \E writable \in BOOLEAN :
    /\ proc[s].pc = "saveFile"
    /\ file' = saveCredentialsToFile(file, proc[s].credentials[1], writable)
    /\ Commit(s, getApiClient_201(Emit(View(s), Did(IF writable THEN "saved" ELSE "saveFailed")),
                                  proc[s].credentials[1]))
    /\ UNCHANGED env

\* A request to /clip/v2 fails: the interceptor throws.
requestFailed(s) ==
  \E failure \in HttpFailures :
    /\ proc[s].pc \in {"getAll", "update"}
    /\ Commit(s, Throw(View(s), HttpErrorMessage(failure)))
    /\ UNCHANGED <<env, file>>

\* client.light.getAll() resolved: listAllLights returns the names, and
\* findLightByName the light, with which turnLightOn / turnLightOff ask
\* for the client again.
lightsFetched(s) ==
  \E lights \in LightListings, outcome \in BrowserOutcomes :
    /\ proc[s].pc = "getAll"
    /\ ResourceOf(proc[s].cmd.tool) = "light"
    /\ LET st == [View(s) EXCEPT !.p.fetched = <<lights>>]
           light == findLightByName(lights, proc[s].cmd.name)
       IN  Commit(s, IF proc[s].cmd.tool = "listAllLights"
                     THEN Return(st, listAllLights(lights))
                     ELSE IF light = <<>>
                     THEN Throw(st, "Light with name '" \o Str(proc[s].cmd.name)
                                      \o "' not found")
                     ELSE getApiClient([st EXCEPT !.p.found = light, !.p.cont = "update"],
                                       outcome))
    /\ UNCHANGED <<env, file>>

\* client.room.getAll() resolved, likewise
roomsFetched(s) ==
  \E rooms \in RoomListings, outcome \in BrowserOutcomes :
    /\ proc[s].pc = "getAll"
    /\ ResourceOf(proc[s].cmd.tool) = "room"
    /\ LET st == [View(s) EXCEPT !.p.fetched = <<rooms>>]
           room == findRoomByName(rooms, proc[s].cmd.name)
       IN  Commit(s, IF proc[s].cmd.tool = "listAllRooms"
                     THEN Return(st, listAllRooms(rooms))
                     ELSE IF room = <<>>
                     THEN Throw(st, "Room with name '" \o Str(proc[s].cmd.name)
                                      \o "' not found")
                     ELSE getApiClient([st EXCEPT !.p.found = room, !.p.cont = "update"],
                                       outcome))
    /\ UNCHANGED <<env, file>>

\* The update request resolved: the service call resolves and the handler
\* returns its success text.
updated(s) ==
  /\ proc[s].pc = "update"
  /\ Commit(s, Return(View(s), <<>>))
  /\ UNCHANGED <<env, file>>

\* The host has the handler's result; the slot is free again.
Complete(s) ==
  /\ proc[s].pc = "returned"
  /\ proc' = [proc EXCEPT ![s] = IdleProc]
  /\ UNCHANGED <<env, file, svc, host, unit>>

\* The process ends and is started again: a new service object, the same
\* environment and file.
Restart ==
  /\ svc' = PhillipsHueService(env)
  /\ proc' = [s \in Slots |-> IdleProc]
  /\ UNCHANGED <<env, file, host, unit>>

\* one step of command `s`
Step(s) ==
  \/ Dispatch(s)
  \/ serviceUp(s)
  \/ browserError(s)
  \/ getHueCredentials(s)
  \/ linkButtonWaitOver(s)
  \/ createUserResponse(s)
  \/ credentialsSaved(s)
  \/ requestFailed(s)
  \/ lightsFetched(s)
  \/ roomsFetched(s)
  \/ updated(s)
  \/ Complete(s)

Next == Restart \/ \E s \in SequentialSlots : Step(s)

Spec == Init /\ [][Next]_vars

---------------------------------------------------------------------------
(* Properties *)

\* the update requests among the requests of a log
Updates(log) == SelectSeq(log, LAMBDA e : e.op = "PUT")

\* the requests of a log that resolve the address or the credentials
BootstrapOps == {"browse", "readFile", "createUser", "writeFile"}
Bootstraps(log) == SelectSeq(log, LAMBDA e : e.op \in BootstrapOps)

\* what command `s` adds to its log in a step
Emitted(s) ==
  IF proc[s].pc # "idle" /\ Len(proc'[s].log) >= Len(proc[s].log)
  THEN SubSeq(proc'[s].log, Len(proc[s].log) + 1, Len(proc'[s].log))
  ELSE proc'[s].log

\* the handler of `s` has returned, with its success text / after an error
Returned(s) == proc[s].pc = "returned"
Succeeded(s) == Returned(s) /\ proc[s].err = Undefined
Failed(s) == Returned(s) /\ proc[s].err # Undefined

\* the listing command `s` was given
Fetched(s) == proc[s].fetched[1]

\* Ready: the API client is cached
Ready == svc.apiClient # NoClient

\* C1: whatever a tool's service call raises, the handler returns a normal
\* response whose text is the tool's failure text followed by the error's
\* message; a handler never ends in a protocol-level fault.
C1_FailuresAreResponses ==
  \A s \in Slots :
    /\ proc[s].result.kind \in {"none", "response"}
    /\ proc[s].err # Undefined =>
         /\ Returned(s)
         /\ proc[s].result = [kind |-> "response",
                              text |-> FailureText(proc[s].cmd.tool) \o proc[s].err]
    /\ Returned(s) => proc[s].result.kind = "response"

\* C1 witness: turnLightOff has ended with the bridge refusing the registration.
C1_Witness ==
  /\ Failed(1)
  /\ proc[1].cmd.tool = "turnLightOff"
  /\ proc[1].err = "Failed to create Hue user: Failed to create Hue user: link button not pressed"
  /\ proc[1].result.text =
       "Failed to turn off light: Failed to create Hue user: Failed to create Hue user: link button not pressed"

\* the first light of `lights` named `name` has id `id`
IsFirstLightNamed(lights, name, id) ==
  \E i \in DOMAIN lights :
    /\ lights[i].name = name /\ lights[i].id = id
    /\ \A j \in 1..(i - 1) : lights[j].name # name

\* room `i` of `rooms` is the first whose name is `name` up to letter case
SameUpToCase(a, b) == a # NoName /\ b # NoName /\ toLowerCase(a) = toLowerCase(b)
IsFirstRoomNamed(rooms, name, i) ==
  /\ SameUpToCase(rooms[i].name, name)
  /\ \A j \in 1..(i - 1) : ~SameUpToCase(rooms[j].name, name)

\* C2: a command never has more than one update request out, and one that
\* succeeded has sent exactly one: turnLightOn to the resolved light with
\* power on and the brightness, turnLightOff to it with power off and no
\* brightness field, the room commands to the room's grouped light and
\* nothing to a light.
C2_ExactlyOneUpdate ==
  \A s \in Slots :
    /\ Len(Updates(proc[s].log)) <= 1
    /\ proc[s].cmd.tool \in ListTools => Updates(proc[s].log) = <<>>
    /\ Succeeded(s) /\ proc[s].cmd.tool \in LightTools \cup RoomTools =>
         /\ Len(Updates(proc[s].log)) = 1
         /\ LET u == Updates(proc[s].log)[1]
                b == IF proc[s].cmd.brightness = NoNumber THEN 100
                     ELSE proc[s].cmd.brightness[1]
            IN  /\ proc[s].cmd.tool \in LightTools =>
                     /\ u.resource = "light"
                     /\ IsFirstLightNamed(Fetched(s), proc[s].cmd.name, u.id)
                /\ proc[s].cmd.tool \in RoomTools =>
                     /\ u.resource = "grouped_light"
                     /\ \E i \in DOMAIN Fetched(s) :
                          /\ IsFirstRoomNamed(Fetched(s), proc[s].cmd.name, i)
                          /\ u.id = "g" \o Fetched(s)[i].id
                          /\ GroupedLightService(Fetched(s)[i].id) \in
                               {Fetched(s)[i].services[k] : k \in DOMAIN Fetched(s)[i].services}
                /\ proc[s].cmd.tool \in {"turnLightOn", "turnRoomLightsOn"} =>
                     u.data = [on |-> [on |-> TRUE], dimming |-> [brightness |-> b]]
                /\ proc[s].cmd.tool \in {"turnLightOff", "turnRoomLightsOff"} =>
                     /\ u.data.on.on = FALSE
                     /\ DOMAIN u.data = {"on"}

\* C2 witness: turnRoomLightsOn with brightness 40 has succeeded.
C2_Witness ==
  /\ Succeeded(1)
  /\ proc[1].cmd.tool = "turnRoomLightsOn"
  /\ proc[1].cmd.brightness = <<40>>
  /\ Len(Fetched(1)) = 2
  /\ Len(Updates(proc[1].log)) = 1

\* the not-found messages of findLightByName and findRoomByName
LightNotFound(name) == "Light with name '" \o Str(name) \o "' not found"
RoomNotFound(name) == "Room with name '" \o Str(name) \o "' not found"

\* C3: a light command whose name equals no display name of the listing it
\* fetched, and a room command whose name equals none up to letter case,
\* has failed with the not-found error and has sent no update request.
C3_NotFoundSendsNothing ==
  \A s \in Slots :
    /\ ( /\ proc[s].cmd.tool \in LightTools
         /\ proc[s].fetched # <<>>
         /\ \A i \in DOMAIN Fetched(s) : Fetched(s)[i].name # proc[s].cmd.name )
       => /\ Failed(s)
          /\ proc[s].err = LightNotFound(proc[s].cmd.name)
          /\ Updates(proc[s].log) = <<>>
    /\ ( /\ proc[s].cmd.tool \in RoomTools
         /\ proc[s].fetched # <<>>
         /\ \A i \in DOMAIN Fetched(s) : ~SameUpToCase(Fetched(s)[i].name, proc[s].cmd.name) )
       => /\ Failed(s)
          /\ proc[s].err = RoomNotFound(proc[s].cmd.name)
          /\ Updates(proc[s].log) = <<>>

\* C3 witness: turnLightOn("KI") was given two lights, one of them "Ki",
\* and has failed.
C3_Witness ==
  /\ Failed(1)
  /\ proc[1].cmd = [tool |-> "turnLightOn", name |-> <<"K", "I">>, brightness |-> NoNumber]
  /\ proc[1].fetched # <<>>
  /\ Len(Fetched(1)) = 2
  /\ Fetched(1)[1].name = <<"K", "i">>

\* the room has no grouped_light service with an id
LacksGroupedLight(room) ==
  \A k \in DOMAIN room.services :
    room.services[k].rtype = "grouped_light" => ~Truthy(room.services[k].rid)

\* C4: a room command whose room was found, but has no grouped_light
\* service or one without an id, has failed with the no-grouped-light
\* error and has sent no update request.
C4_NoGroupedLightSendsNothing ==
  \A s \in Slots :
    ( /\ proc[s].cmd.tool \in RoomTools
      /\ proc[s].found # <<>>
      /\ LacksGroupedLight(proc[s].found[1]) )
    => /\ Failed(s)
       /\ proc[s].err = "No grouped light service found for room '"
                          \o Str(proc[s].cmd.name) \o "'"
       /\ Updates(proc[s].log) = <<>>

\* C4 witness: turnRoomLightsOff found a room whose only grouped_light
\* service has no id.
C4_Witness ==
  /\ Failed(1)
  /\ proc[1].cmd.tool = "turnRoomLightsOff"
  /\ proc[1].found # <<>>
  /\ proc[1].found[1].services = <<BrokenGroupedLightService>>

\* C5: from a state in which the client is cached, a step either ends the
\* process or leaves the service object as it is, and no command issues a
\* discovery, a load of the credentials file, a registration request or a
\* write of the file.
C5_ReadyIsTerminal ==
  [][Ready =>
       \/ svc' = PhillipsHueService(env) /\ proc' = [s \in Slots |-> IdleProc]
       \/ /\ svc' = svc
          /\ \A s \in Slots : Bootstraps(Emitted(s)) = <<>>]_vars

\* C5 witness: with the client cached from an earlier command, a command
\* was dispatched and has failed; the service is still ready.
C5_Witness ==
  /\ Ready
  /\ Failed(1)
  /\ proc[1].log = <<Event("GET", "room", "", <<>>)>>
  /\ svc.bridgeIp = "192.168.1.2"
  /\ svc.hueClientKey = "u1"

\* the file holds a username and a client key
HoldsCredentials(f) ==
  /\ f.exists
  /\ f.text.json
  /\ Truthy(Member(f.text, "username"))
  /\ Truthy(Member(f.text, "clientKey"))

\* command `s` issues a write of the credentials file in this step
IssuesWrite(s) == \E k \in DOMAIN Emitted(s) : Emitted(s)[k].op = "writeFile"

\* the requests before the last one of the log were a load of the file
\* and then a registration
AfterLoadAndRegistration(log) ==
  \E i, j \in DOMAIN log :
    i < j /\ j < Len(log) /\ log[i].op = "readFile" /\ log[j].op = "createUser"

\* C6: the credentials file is written only by a command that loaded it,
\* got none and registered, and a file that holds a credential pair is not
\* written again by any command, before or after a restart.
C6_FileWrittenOnce ==
  [][ /\ \A s \in Slots : IssuesWrite(s) => AfterLoadAndRegistration(proc'[s].log)
      /\ file' # file => \E s \in Slots : proc[s].pc = "saveFile"
      /\ HoldsCredentials(file) =>
           /\ file' = file
           /\ \A s \in Slots : ~IssuesWrite(s) ]_vars

\* C7: with no bridge address configured, a command whose browser is
\* never told of a service is not left waiting: its discovery can fail.
C7_DiscoveryFails ==
  \A s \in Slots :
    ( /\ env.HUE_BRIDGE_IP = Undefined
      /\ proc[s].pc = "browsing"
      /\ proc[s].browser # "serviceUp" )
    => ENABLED Step(s)

\* command `s` has sent a registration request
Registered(s) == \E k \in DOMAIN proc[s].log : proc[s].log[k].op = "createUser"

\* C8: with HUE_USERNAME configured no command sends a registration request,
\* and the client, once built, presents the configured identity.
C8_ConfiguredUsernameIsUsed ==
  Truthy(env.HUE_USERNAME) =>
    /\ \A s \in Slots : ~Registered(s)
    /\ Ready => svc.apiClient.apiKey = env.HUE_USERNAME

\* with HUE_USERNAME configured alone and no credentials file, a command
\* has sent a registration request
C8_RegistrationReached ==
  /\ env.HUE_USERNAME = "env-user"
  /\ env.HUE_CLIENT_KEY = Undefined
  /\ file = NoFile
  /\ Registered(1)

\* C9: a light command that was given a listing holds a light of that
\* listing whose display name is the name asked for, character by
\* character, whenever the listing has one, and holds none otherwise, also
\* when a display name differs from the name asked for in letter case only.
C9_ExactMatch ==
  \A s \in Slots :
    proc[s].cmd.tool \in LightTools /\ proc[s].fetched # <<>> =>
      LET lights == Fetched(s)
          name == proc[s].cmd.name
      IN  /\ (\E i \in DOMAIN lights : lights[i].name = name) =>
               /\ proc[s].found # <<>>
               /\ proc[s].found[1].name = name
               /\ \E i \in DOMAIN lights : lights[i] = proc[s].found[1]
          /\ (\A i \in DOMAIN lights : lights[i].name # name) => proc[s].found = <<>>

\* C9 witness: asked for "Ki" in a listing of "ki" and "Ki", the command
\* holds the second light.
C9_Witness ==
  /\ proc[1].cmd.tool = "turnLightOn"
  /\ proc[1].cmd.name = <<"K", "i">>
  /\ proc[1].fetched # <<>>
  /\ Len(Fetched(1)) = 2
  /\ Fetched(1)[1].name = <<"k", "i">>
  /\ Fetched(1)[2].name = <<"K", "i">>
  /\ proc[1].found = <<Fetched(1)[2]>>

\* asked for "KI" in a listing that holds "Ki", the command holds no light
C9_CaseOnlyReached ==
  /\ proc[1].cmd.tool = "turnLightOff"
  /\ proc[1].cmd.name = <<"K", "I">>
  /\ proc[1].fetched # <<>>
  /\ \E i \in DOMAIN Fetched(1) : Fetched(1)[i].name = <<"K", "i">>
  /\ proc[1].found = <<>>

\* the names listAllLights reports for a listing
ListedNames(lights) == {listAllLights(lights)[k] : k \in DOMAIN listAllLights(lights)}

\* C10: a light command asked for a name that listAllLights reports for
\* the listing it was given has found a light, the synthetic name
\* "Light <id>" of a light without display name included.
C10_ListedNamesResolve ==
  \A s \in Slots :
    ( /\ proc[s].cmd.tool \in LightTools
      /\ proc[s].fetched # <<>>
      /\ proc[s].cmd.name \in ListedNames(Fetched(s)) )
    => proc[s].found # <<>>

---------------------------------------------------------------------------
(* Single calls of the service's methods *)

\* The upper case of a character (String.prototype.toUpperCase): a string,
\* as the upper case of "ß" is "SS".
UpperChar(c) ==
  CASE c = "k" -> <<"K">>
    [] c = "i" -> <<"I">>
    [] c = "o" -> <<"O">>
    [] c = "f" -> <<"F">>
    [] c = "l" -> <<"L">>
    [] c = "r" -> <<"R">>
    [] c = "s" -> <<"S">>
    [] c = "ß" -> <<"S", "S">>
    [] OTHER -> <<c>>

RECURSIVE Casings(_)
\* the letter-casings of a name: every character as it is, in lower case
\* or in upper case
Casings(chars) ==
  IF chars = <<>> THEN {<<>>}
  ELSE {h \o t : h \in {<<Head(chars)>>, <<LowerChar(Head(chars))>>, UpperChar(Head(chars))},
                 t \in Casings(Tail(chars))}

RECURSIVE SimpleCasings(_)
\* the letter-casings that put one character for one character
SimpleCasings(chars) ==
  IF chars = <<>> THEN {<<>>}
  ELSE {h \o t : h \in {c \in {<<Head(chars)>>, <<LowerChar(Head(chars))>>, UpperChar(Head(chars))} :
                          Len(c) = 1},
                 t \in SimpleCasings(Tail(chars))}

\* room names given to a call of findRoomByName on its own, and the rooms
\* that carry them
CalledRoomNames == {<<"O", "f">>, <<"o", "F">>, <<"ß", "o">>}
CalledRooms ==
  UNION { [id : {i}, name : CalledRoomNames \cup {NoName}, services : {<<LightService(i)>>}]
        : i \in Ids }
CalledRoomQueries == UNION {Casings(n) : n \in CalledRoomNames} \cup {<<"K", "i">>}

\* the calls of findRoomByName, before they are made
FindRoomCalls ==
  [fn : {"findRoomByName"}, rooms : Listings(CalledRooms), roomName : CalledRoomQueries,
   done : {FALSE}, out : {<<>>}]

\* rooms.find(...) of findRoomByName, on the rooms client.room.getAll() gave
Call_findRoomByName ==
  /\ unit.fn = "findRoomByName"
  /\ ~unit.done
  /\ unit' = [unit EXCEPT !.done = TRUE, !.out = findRoomByName(unit.rooms, unit.roomName)]
  /\ UNCHANGED <<env, file, svc, proc, host>>

\* the listings of up to MaxListed lights or rooms, and their reorderings
ListedIds == {ToString(i) : i \in 1..MaxListed}
ListedLights == [id : ListedIds, name : LightNames \cup {NoName}]
ListedRooms ==
  UNION { [id : {i}, name : RoomNames \cup {NoName}, services : {<<LightService(i)>>}]
        : i \in ListedIds }

ListingsOf(Entities) ==
  UNION { {l \in [1..n -> Entities] : \A i, j \in 1..n : i # j => l[i].id # l[j].id}
        : n \in 0..MaxListed }

Reorderings(n) == {f \in [1..n -> 1..n] : \A i, j \in 1..n : i # j => f[i] # f[j]}
Shuffles(l) == {[i \in 1..Len(l) |-> l[f[i]]] : f \in Reorderings(Len(l))}

\* the calls of listAllLights and listAllRooms, before they are made: each
\* is made on a listing and on a reordering of it
ListCalls(fn, Entities) ==
  UNION { [fn : {fn}, entities : {l}, shuffled : Shuffles(l),
           done : {FALSE}, out : {<<>>}, outShuffled : {<<>>}]
        : l \in ListingsOf(Entities) }

\* listAllLights, on the lights client.light.getAll() gave
Call_listAllLights ==
  /\ unit.fn = "listAllLights"
  /\ ~unit.done
  /\ unit' = [unit EXCEPT !.done = TRUE,
                          !.out = listAllLights(unit.entities),
                          !.outShuffled = listAllLights(unit.shuffled)]
  /\ UNCHANGED <<env, file, svc, proc, host>>

\* listAllRooms, on the rooms client.room.getAll() gave
Call_listAllRooms ==
  /\ unit.fn = "listAllRooms"
  /\ ~unit.done
  /\ unit' = [unit EXCEPT !.done = TRUE,
                          !.out = listAllRooms(unit.entities),
                          !.outShuffled = listAllRooms(unit.shuffled)]
  /\ UNCHANGED <<env, file, svc, proc, host>>

\* credential pairs given to saveCredentialsToFile called on its own: both
\* members are strings, possibly empty
CredentialPairs == [username : {"u1", ""}, clientKey : {"u1", "k1", ""}]

\* The calls of the credential store, before they are made: a save of a
\* pair and then a load, or a load alone (save is <<>>).  `writable` and
\* `readable` are whether the file system lets the write and the read
\* through.
StoreCalls ==
  [fn : {"credentialStore"}, save : {<<>>} \cup {<<c>> : c \in CredentialPairs},
   writable : BOOLEAN, readable : BOOLEAN, saved : {FALSE}, loaded : {FALSE}, out : {<<>>}]

\* saveCredentialsToFile(credentials)
Call_saveCredentialsToFile ==
  /\ unit.fn = "credentialStore"
  /\ unit.save # <<>>
  /\ ~unit.saved
  /\ file' = saveCredentialsToFile(file, unit.save[1], unit.writable)
  /\ unit' = [unit EXCEPT !.saved = TRUE]
  /\ UNCHANGED <<env, svc, proc, host>>

\* readCredentialsFromFile(), after the save if there is one
Call_readCredentialsFromFile ==
  /\ unit.fn = "credentialStore"
  /\ unit.save # <<>> => unit.saved
  /\ ~unit.loaded
  /\ unit' = [unit EXCEPT !.loaded = TRUE,
                          !.out = readCredentialsFromFile(file, unit.readable)]
  /\ UNCHANGED <<env, file, svc, proc, host>>

UnitCalls ==
  StoreCalls \cup
  FindRoomCalls
    \cup ListCalls("listAllLights", ListedLights)
    \cup ListCalls("listAllRooms", ListedRooms)

UnitInit ==
  /\ env = [HUE_BRIDGE_IP |-> Undefined, HUE_USERNAME |-> Undefined, HUE_CLIENT_KEY |-> Undefined]
  /\ svc = PhillipsHueService(env)
  /\ proc = [s \in Slots |-> IdleProc]
  /\ host = OneAtATime
  /\ unit \in UnitCalls
  /\ file \in IF unit.fn = "credentialStore" THEN InitialFiles ELSE {NoFile}

UnitNext ==
  \/ Call_findRoomByName
  \/ Call_listAllLights
  \/ Call_listAllRooms
  \/ Call_saveCredentialsToFile
  \/ Call_readCredentialsFromFile

SpecUnit == UnitInit /\ [][UnitNext]_vars

\* a call of findRoomByName has been made
FoundRoomCall == unit.fn = "findRoomByName" /\ unit.done

C11_SharpSReached ==
  /\ FoundRoomCall
  /\ unit.roomName = <<"S", "S", "O">>
  /\ unit.rooms = <<[id |-> "1", name |-> <<"ß", "o">>, services |-> <<LightService("1")>>]>>
  /\ unit.out = <<>>

\* a call of listAllLights or listAllRooms has been made
ListedCall == unit.fn \in {"listAllLights", "listAllRooms"} /\ unit.done

\* the name a light or room is listed under
DisplayName(kind, entity) ==
  IF entity.name # NoName THEN entity.name
  ELSE IF kind = "listAllLights" THEN SyntheticLightName(entity.id)
  ELSE SyntheticRoomName(entity.id)

\* `names` are the display names of `entities`, one for each
NamesOf(kind, entities, names) ==
  /\ Len(names) = Len(entities)
  /\ \E f \in Reorderings(Len(entities)) :
       \A i \in DOMAIN entities : names[f[i]] = DisplayName(kind, entities[i])

\* the characters in the order of their code units
CodeUnitOrder ==
  <<" ", "1", "2", "3", "4", "F", "I", "K", "L", "O", "R", "S",
    "f", "g", "h", "i", "k", "l", "m", "o", "r", "s", "t">>
CodeUnit(c) == CHOOSE i \in DOMAIN CodeUnitOrder : CodeUnitOrder[i] = c

RECURSIVE LexicographicallyBefore(_, _)
\* `a` is `b` or comes before it in lexicographic order
LexicographicallyBefore(a, b) ==
  IF a = <<>> THEN TRUE
  ELSE IF b = <<>> THEN FALSE
  ELSE IF CodeUnit(Head(a)) # CodeUnit(Head(b)) THEN CodeUnit(Head(a)) < CodeUnit(Head(b))
  ELSE LexicographicallyBefore(Tail(a), Tail(b))

\* C12 as stated: the names listed are the display names of the entities,
\* in ascending lexicographic order, the same for a reordered listing.
C12_SortedLexicographically ==
  ListedCall =>
    /\ NamesOf(unit.fn, unit.entities, unit.out)
    /\ \A i, j \in DOMAIN unit.out : i < j => LexicographicallyBefore(unit.out[i], unit.out[j])
    /\ unit.outShuffled = unit.out

\* C12: the names listed are the display names of the entities, one for
\* each; they ascend in the lexicographic order of their lower-case forms,
\* names that differ in letter case only in the order localeCompare gives
\* them (lower case first); and a reordering of the listing is listed the same.
C12_SortedByCollation ==
  ListedCall =>
    /\ NamesOf(unit.fn, unit.entities, unit.out)
    /\ \A i, j \in DOMAIN unit.out : i < j =>
         /\ LexicographicallyBefore(toLowerCase(unit.out[i]), toLowerCase(unit.out[j]))
         /\ toLowerCase(unit.out[i]) = toLowerCase(unit.out[j]) =>
              \A k \in DOMAIN unit.out[i] :
                (\A m \in 1..(k - 1) : unit.out[i][m] = unit.out[j][m]) =>
                  (unit.out[i][k] = unit.out[j][k] \/ unit.out[i][k] = LowerChar(unit.out[i][k]))
    /\ unit.outShuffled = unit.out

\* C12 witness: the lights "Of", one without display name and "ki", and the
\* same lights in another order, are both listed as "ki", "Light 2", "Of".
C12_Witness ==
  /\ ListedCall
  /\ unit.fn = "listAllLights"
  /\ unit.entities = <<[id |-> "1", name |-> <<"O", "f">>], [id |-> "2", name |-> NoName],
                       [id |-> "3", name |-> <<"k", "i">>]>>
  /\ unit.shuffled = <<unit.entities[2], unit.entities[3], unit.entities[1]>>
  /\ unit.out = <<<<"k", "i">>, SyntheticLightName("2"), <<"O", "f">>>>
  /\ unit.outShuffled = unit.out

\* a pair has been saved and the file then loaded
SavedAndLoaded ==
  unit.fn = "credentialStore" /\ unit.save # <<>> /\ unit.saved /\ unit.loaded

C13_FailedWriteReached ==
  /\ SavedAndLoaded
  /\ ~unit.writable
  /\ unit.save = <<HueCredentials("u1", "k1")>>
  /\ unit.out = <<HueCredentials("u0", "k0")>>

\* a pair with an empty client key was written, and the load has yielded none
C13_EmptyMemberReached ==
  /\ SavedAndLoaded
  /\ unit.writable
  /\ unit.readable
  /\ unit.save = <<HueCredentials("u1", "")>>
  /\ file = FileWith(Stringify(HueCredentials("u1", "")))
  /\ unit.out = <<>>

\* command `s` is registering: it waits for the link button, or for the
\* address createNewHueUser needs first
Bootstrapping(s) ==
  \/ proc[s].pc = "waitButton"
  \/ proc[s].pc = "browsing" /\ proc[s].ret = "createNewHueUser"

\* command `s` takes the credentials in this step
TakesCredentials(s) == \E k \in DOMAIN Emitted(s) : Emitted(s)[k].op = "setCredentials"

\* C14: the step that ends a command's load of the credentials file either
\* hands the pair the file holds to getApiClient or leaves the command
\* registering, with no error raised and the service as it was; it is the
\* latter whenever the file is missing, is not JSON or lacks a username or
\* a client key (and may be when the file cannot be read).
C14_LoadYieldsNone ==
  [][\A s \in Slots :
       proc[s].pc = "readFile" /\ proc'[s].pc \notin {"readFile", "idle"} =>
         /\ \/ /\ HoldsCredentials(file)
               /\ TakesCredentials(s)
               /\ svc'.hueUsername = Member(file.text, "username")
               /\ svc'.hueClientKey = Member(file.text, "clientKey")
            \/ /\ Bootstrapping(s)'
               /\ proc'[s].err = Undefined
               /\ svc' = svc
               /\ file' = file
         /\ ~HoldsCredentials(file) => Bootstrapping(s)' /\ proc'[s].err = Undefined]_vars

\* C14 witness: a command could not read a file that holds a credential
\* pair, and waits for the link button.
C14_Witness ==
  /\ file = FileWith(Stringify(HueCredentials("u0", "k0")))
  /\ proc[1].pc = "waitButton"
  /\ proc[1].err = Undefined
  /\ proc[1].log # <<>>
  /\ proc[1].log[Len(proc[1].log)].op = "readFile"

\* a command has loaded a file that is not JSON and waits for the link button
C14_NotJsonReached ==
  /\ file = FileWith(NotJson)
  /\ proc[1].pc = "waitButton"
  /\ proc[1].err = Undefined
  /\ proc[1].log # <<>>
  /\ proc[1].log[Len(proc[1].log)].op = "readFile"

\* a command has loaded a file that names no client key and has started
\* the discovery createNewHueUser needs
C14_IncompleteFileReached ==
  /\ file = FileWith(Stringify(HueCredentials("u0", Undefined)))
  /\ Bootstrapping(1)
  /\ proc[1].pc = "browsing"

\* the operations of a log, and the requests to /clip/v2 among them
Ops(log) == {log[k].op : k \in DOMAIN log}
BridgeRequests == {"GET", "PUT"}

\* the messages of the errors createNewHueUser throws for an answer
RegistrationErrors ==
  {"Failed to create Hue user: " \o CreateUserError(r)
     : r \in {x \in CreateUserResponses : x.kind # "success"}}

\* C15: a command whose registration request the bridge answered with an
\* error payload, or with a response without success username, has failed
\* with createNewHueUser's error; it has not issued a write of the
\* credentials file, has not handed credentials to getApiClient and has
\* sent no light, room or grouped-light request; the service holds no
\* client and no credentials beyond those of the environment.
C15_RegistrationFailure ==
  \A s \in Slots :
    proc[s].response.kind \in {"error", "unexpected", "empty"} =>
      /\ Failed(s)
      /\ proc[s].err \in RegistrationErrors
      /\ proc[s].result.text = FailureText(proc[s].cmd.tool) \o proc[s].err
      /\ Ops(proc[s].log) \cap ({"writeFile", "saved", "saveFailed", "setCredentials"}
                                  \cup BridgeRequests) = {}
      /\ proc[s].log[Len(proc[s].log)].op = "createUser"
      /\ ~Ready
      /\ svc.hueUsername = env.HUE_USERNAME
      /\ svc.hueClientKey = env.HUE_CLIENT_KEY

\* C15 witness: the bridge answered listAllRooms' registration request
\* with a response that has neither error nor success.
C15_Witness ==
  /\ proc[1].cmd.tool = "listAllRooms"
  /\ proc[1].response = [kind |-> "unexpected"]
  /\ proc[1].err = "Failed to create Hue user: Failed to create Hue user: Unexpected response format"
  /\ file = NoFile

\* C16: a command whose write of the credentials file failed goes on as if
\* it had not: the service holds the new credentials and a client with the
\* new key, the command has fetched its listing with it, and no error of
\* the command is the write's.
C16_WriteFailureSwallowed ==
  \A s \in Slots :
    "saveFailed" \in Ops(proc[s].log) =>
      /\ proc[s].response.kind = "success"
      /\ svc.hueUsername = proc[s].response.username
      /\ svc.hueClientKey = proc[s].response.username
      /\ Ready
      /\ svc.apiClient = HueApiClient(svc.bridgeIp, proc[s].response.username)
      /\ \E i, j, k \in DOMAIN proc[s].log :
           /\ j = i + 1 /\ k = j + 1
           /\ proc[s].log[i].op = "saveFailed"
           /\ proc[s].log[j].op = "setCredentials"
           /\ proc[s].log[k] = Event("GET", ResourceOf(proc[s].cmd.tool), "", <<>>)
      /\ proc[s].err \in {Undefined, LightNotFound(proc[s].cmd.name),
                          RoomNotFound(proc[s].cmd.name),
                          "No grouped light service found for room '"
                            \o Str(proc[s].cmd.name) \o "'"}
                         \cup {HttpErrorMessage(f) : f \in HttpFailures}

\* C16 witness: turnLightOn registered, could not write the file (there is
\* none afterwards) and has succeeded.
C16_Witness ==
  /\ Succeeded(1)
  /\ proc[1].cmd.tool = "turnLightOn"
  /\ "saveFailed" \in Ops(proc[1].log)
  /\ file = NoFile
  /\ Len(Updates(proc[1].log)) = 1

\* the ids an update of command `s` may name: those of the lights it
\* fetched, or of the grouped lights of the rooms it fetched
Targets(s) ==
  IF proc[s].cmd.tool \in LightTools
  THEN {Fetched(s)[i].id : i \in DOMAIN Fetched(s)}
  ELSE UNION { {Fetched(s)[i].services[k].rid : k \in DOMAIN Fetched(s)[i].services}
             : i \in DOMAIN Fetched(s) }

\* C18: in a command's log, a request for lights, rooms or grouped lights
\* comes after every step that resolves the address or the credentials,
\* and the service then holds an address, a client key and the client; an
\* update request comes after the fetch of the command's own listing and
\* names a light or grouped light of that listing.
C18_RequestsAreOrdered ==
  \A s \in Slots :
    LET log == proc[s].log
    IN  /\ Ops(log) \cap BridgeRequests # {} =>
             /\ Truthy(svc.bridgeIp)
             /\ Truthy(svc.hueClientKey)
             /\ svc.apiClient = HueApiClient(svc.bridgeIp, svc.hueClientKey)
        /\ \A i, j \in DOMAIN log :
             i < j /\ log[i].op \in BridgeRequests => log[j].op \in BridgeRequests
        /\ \A j \in DOMAIN log :
             log[j].op = "PUT" =>
               /\ \E i \in 1..(j - 1) :
                    log[i] = Event("GET", ResourceOf(proc[s].cmd.tool), "", <<>>)
               /\ proc[s].fetched # <<>>
               /\ proc[s].found # <<>>
               /\ \E i \in DOMAIN Fetched(s) : Fetched(s)[i] = proc[s].found[1]
               /\ log[j].resource = (IF proc[s].cmd.tool \in LightTools
                                     THEN "light" ELSE "grouped_light")
               /\ Truthy(log[j].id)
               /\ log[j].id \in Targets(s)
               /\ log[j].id \in (IF proc[s].cmd.tool \in LightTools
                                 THEN {proc[s].found[1].id}
                                 ELSE {"g" \o proc[s].found[1].id})

\* C18 witness: turnRoomLightsOff discovered the bridge, registered, fetched
\* two rooms and has updated the grouped light of the second.
C18_Witness ==
  /\ Succeeded(1)
  /\ proc[1].cmd.tool = "turnRoomLightsOff"
  /\ Ops(proc[1].log) = {"browse", "readFile", "createUser", "writeFile", "saved",
                         "setCredentials", "GET", "PUT"}
  /\ Len(Fetched(1)) = 2
  /\ proc[1].log[Len(proc[1].log)] = Event("PUT", "grouped_light", "g2", TurnOffData)

---------------------------------------------------------------------------
(* Two commands in one process *)

\* Two calls of listAllLights reach a process that has no credentials, no
\* client and no credentials file; the bridge lists no lights.  Each slot
\* takes one of them.  The host sends the second when the first has been
\* answered, or at any time.
HostInit ==
  /\ env \in {e \in Environments : e.HUE_USERNAME = Undefined /\ e.HUE_CLIENT_KEY = Undefined}
  /\ file = NoFile
  /\ svc = PhillipsHueService(env)
  /\ proc = [s \in Slots |-> IdleProc]
  /\ host \in {OneAtATime, Overlapping}
  /\ unit = NoUnit

\* the host calls listAllLights
HostDispatch(s) ==
  /\ host = OneAtATime => \A other \in Slots \ {s} : proc[other].pc \in {"idle", "returned"}
  /\ Dispatch(s)
  /\ proc'[s].cmd.tool = "listAllLights"

\* client.light.getAll() resolved to no lights
HostLightsFetched(s) ==
  /\ lightsFetched(s)
  /\ proc'[s].fetched = <<<<>>>>

HostStep(s) ==
  \/ HostDispatch(s)
  \/ serviceUp(s)
  \/ browserError(s)
  \/ getHueCredentials(s)
  \/ linkButtonWaitOver(s)
  \/ createUserResponse(s)
  \/ credentialsSaved(s)
  \/ requestFailed(s)
  \/ HostLightsFetched(s)

HostNext == \E s \in Slots : HostStep(s)

SpecHost == HostInit /\ [][HostNext]_vars

\* every command of the process has done all of `ops`
AllDid(ops) == \A s \in Slots : ops \subseteq Ops(proc[s].log)

\* C17: a process in which both commands have set the service's
\* credentials, or both have issued a write of the credentials file, is
\* one whose host lets commands overlap: with one command at a time the
\* credentials are set and the file is written by one command at most.
C17_RaceNeedsOverlap ==
  /\ AllDid({"setCredentials"}) => host = Overlapping
  /\ AllDid({"writeFile"}) => host = Overlapping

\* C17 witness: with no address and no credentials configured and no
\* credentials file, two commands have each discovered the bridge, loaded
\* no credentials, sent a registration request, written the credentials
\* file and set the service's address and credentials.
C17_Witness ==
  /\ host = Overlapping
  /\ env.HUE_BRIDGE_IP = Undefined
  /\ AllDid({"browse", "readFile", "createUser", "writeFile", "saved", "setCredentials", "GET"})
  /\ \A s \in Slots : Succeeded(s)
  /\ HoldsCredentials(file)

============================================================================
